---- MODULE Spec2Model ----
(***************************************************************************)
(* Model of the logicism schematic editor (druid variant): the canvas      *)
(* controller (src/src/canvas.rs), the component items                     *)
(* (src/src/component.rs) and the wire items (src/src/wire.rs).            *)
(*                                                                         *)
(* Pixel positions are integer points [x, y]; every size, anchor offset    *)
(* and pin position of the catalog is an integer, so the f64 arithmetic of *)
(* the source is exact on them.  Option<T> is a sequence of length at most *)
(* one: None == <<>>, Some(v) == <<v>>.                                    *)
(***************************************************************************)
EXTENDS Integers, Sequences, FiniteSets, TLC

VARIABLES
    wires,            \* CanvasState.wires: id -> WireState
    components,       \* CanvasState.components: id -> ComponentState
    tool,             \* CanvasState.tool
    mouse_pos,        \* CanvasState.mouse_pos: Option<Coords>
    last_orientation, \* CanvasState.last_orientation
    drawing,          \* CanvasState.drawing: Option<WireDraw>
    wire_widgets,     \* Canvas.wires: the ids that have a Wire widget
    component_widgets,\* Canvas.components: id -> widget flags (active, hot)
    next_item_id,     \* NEXT_ITEM_ID
    alloc_log,        \* the values returned by NEXT_ITEM_ID.fetch_add, in order
    commands,         \* commands submitted and not yet delivered
    focus,            \* the widget that holds the keyboard focus
    window_connected, \* whether WindowConnected has been dispatched
    pointer,          \* where the pointer is, once an event has reported it
    last_command,     \* the last command delivered since the last input event
    panicked,         \* an unwrap of None has aborted the process
    call,             \* a single call of a pure function: inputs and result
    canvas_state      \* App.canvas_state of the drag-lift variant (main.rs)

vars == <<wires, components, tool, mouse_pos, last_orientation, drawing,
          wire_widgets, component_widgets, next_item_id, alloc_log,
          commands, focus, window_connected, pointer, last_command,
          panicked, call, canvas_state>>

canvas_vars == <<wires, components, tool, mouse_pos, last_orientation, drawing,
                 wire_widgets, component_widgets, next_item_id, alloc_log,
                 commands, focus, window_connected, pointer, last_command,
                 panicked, canvas_state>>

----------------------------------------------------------------------------
(* Bounds of the model *)

GridMax == 2
MaxItems == 2

\* The cells the pure functions are applied to: both signs and zero
Cells == [x : (0 - GridMax)..GridMax, y : (0 - GridMax)..GridMax]

----------------------------------------------------------------------------
(* Option<T> *)

None == <<>>
Some(v) == <<v>>
is_some(o) == o /= None
unwrap(o) == o[1]

----------------------------------------------------------------------------
(* Coords: canvas.rs *)

CellSize == 16
HalfCell == 8

\* f64::round of n / d for integers n and d > 0: half away from zero
round(n, d) ==
    IF n >= 0 THEN (2 * n + d) \div (2 * d)
              ELSE 0 - ((2 * (0 - n) + d) \div (2 * d))

Coords_new(x, y) == [x |-> x, y |-> y]

Point_new(x, y) == [x |-> x, y |-> y]

from_widget_space(pos) ==
    [x |-> round(pos.x, CellSize), y |-> round(pos.y, CellSize)]

to_widget_space(c) == Point_new(c.x * CellSize, c.y * CellSize)

from_canvas_space_no_half_cell(pos) ==
    [x |-> round(pos.x, CellSize), y |-> round(pos.y, CellSize)]

from_canvas_space(pos) ==
    [x |-> round(pos.x - HalfCell, CellSize),
     y |-> round(pos.y - HalfCell, CellSize)]

to_canvas_space(c) ==
    LET p == to_widget_space(c) IN Point_new(p.x + HalfCell, p.y + HalfCell)

Coords_add(a, b) == [x |-> a.x + b.x, y |-> a.y + b.y]

Point_sub(a, b) == [x |-> a.x - b.x, y |-> a.y - b.y]

Point_add(a, b) == [x |-> a.x + b.x, y |-> a.y + b.y]

----------------------------------------------------------------------------
(* WireSegment: wire.rs *)

WireSegment_new_either_axis(start, end) ==
    IF start.x /= end.x \/ start.y /= end.y
        THEN None
        ELSE Some([start |-> start, end |-> end])

WireSegment_new(start, end) ==
    IF start.x /= end.x /\ start.y /= end.y
        THEN None
        ELSE Some([start |-> start, end |-> end])

abs_diff(a, b) == IF a >= b THEN a - b ELSE b - a

snap_horizontal_only(start_point, mouse) ==
    LET is_horizontal_draw ==
            abs_diff(mouse.x, start_point.x) > abs_diff(mouse.y, start_point.y)
    IN  IF is_horizontal_draw
            THEN [mouse EXCEPT !.y = start_point.y]
            ELSE mouse

\* Canvas::paint, "drawing wire": snap start->mouse_pos to compass directions
snap(start_point, mouse) ==
    LET is_horizontal_draw ==
            abs_diff(mouse.x, start_point.x) > abs_diff(mouse.y, start_point.y)
    IN  IF is_horizontal_draw
            THEN [mouse EXCEPT !.y = start_point.y]
            ELSE [mouse EXCEPT !.x = start_point.x]

----------------------------------------------------------------------------
(* Orientation, ComponentType: component.rs *)

Orientation == {"North", "East", "South", "West"}

Size_new(w, h) == [width |-> w, height |-> h]

Pin_new(x, y, ty) == [pos |-> Coords_new(x, y), ty |-> ty]

\* ComponentType::enumerate: NOT, AND, OR, NAND (1-based here, 0-based in Rust)
enumerate ==
    << [size |-> Size_new(24, 48), anchor_offset |-> Point_new(12, 32),
        pins |-> << Pin_new(0, 1, "Input"), Pin_new(0, -2, "Output") >>],
       [size |-> Size_new(48, 48), anchor_offset |-> Point_new(24, 32),
        pins |-> << Pin_new(-1, 1, "Input"), Pin_new(1, 1, "Input"),
                    Pin_new(0, -2, "Output") >>],
       [size |-> Size_new(48, 48), anchor_offset |-> Point_new(24, 32),
        pins |-> << Pin_new(-1, 1, "Input"), Pin_new(1, 1, "Input"),
                    Pin_new(0, -2, "Output") >>],
       [size |-> Size_new(48, 48), anchor_offset |-> Point_new(24, 32),
        pins |-> << Pin_new(-1, 1, "Input"), Pin_new(1, 1, "Input"),
                    Pin_new(0, -2, "Output") >> ] >>

component_types == enumerate

TypeIds == 1..Len(component_types)

anchor_offset_unrotated(ty, orientation) == component_types[ty].anchor_offset

\* ComponentType::anchor_offset
anchor_offset(ty, orientation) ==
    LET a == component_types[ty].anchor_offset
        size == component_types[ty].size
    IN  CASE orientation = "North" -> a
          [] orientation = "East"  -> Point_new(size.height - a.y, a.x)
          [] orientation = "South" -> Point_new(size.width - a.x, size.height - a.y)
          [] orientation = "West"  -> Point_new(a.y, size.width - a.x)

Rect_from_origin_size(origin, size) ==
    [x0 |-> origin.x, y0 |-> origin.y,
     x1 |-> origin.x + size.width, y1 |-> origin.y + size.height]

Rect_origin(r) == Point_new(r.x0, r.y0)
Rect_width(r) == r.x1 - r.x0
Rect_height(r) == r.y1 - r.y0

\* kurbo Rect::contains: half-open on both axes
Rect_contains(r, p) ==
    /\ p.x >= r.x0 /\ p.x < r.x1
    /\ p.y >= r.y0 /\ p.y < r.y1

\* ComponentType::bounding_rect
bounding_rect(ty, coords, orientation) ==
    LET top_left == Point_sub(to_canvas_space(coords), anchor_offset(ty, orientation))
        size == IF orientation \in {"North", "South"}
                    THEN component_types[ty].size
                    ELSE Size_new(component_types[ty].size.height,
                                  component_types[ty].size.width)
    IN  Rect_from_origin_size(top_left, size)

----------------------------------------------------------------------------
(* Construction *)

Hand == [kind |-> "Hand"]
Place(ty, orientation) == [kind |-> "Place", ty |-> ty, orientation |-> orientation]

\* App::new of the drag-lift variant: the canvas_state it starts with, no
\* component in the list and none lifted
App_new == [components |-> <<>>, dragging |-> None, tool |-> "Hand"]

\* CanvasState::new, Canvas::new, NEXT_ITEM_ID
CanvasInit ==
    /\ wires = <<>>
    /\ components = <<>>
    /\ tool = Hand
    /\ mouse_pos = None
    /\ last_orientation = "North"
    /\ drawing = None
    /\ wire_widgets = {}
    /\ component_widgets = <<>>
    /\ next_item_id = 0
    /\ alloc_log = <<>>
    /\ commands = <<>>
    /\ focus = None
    /\ window_connected = FALSE
    /\ pointer = None
    /\ last_command = None
    /\ panicked = FALSE
    /\ canvas_state = App_new

----------------------------------------------------------------------------
(* ComponentInstance, ComponentState: component.rs *)

\* ComponentState::new
ComponentState_new(coords, ty, orientation) ==
    [coords |-> coords, ty |-> ty, orientation |-> orientation,
     selected |-> FALSE, dragging |-> None]

\* ComponentInstance::anchor_offset: the North offset, whatever the orientation
instance_anchor_offset(data) == anchor_offset(data.ty, "North")

\* ComponentInstance::rotate_about_anchor applied to the point p:
\* recenter * rotate(angle), with rotate(90 deg)(x, y) = (-y, x) (y grows down)
rotate_about_anchor(data, p) ==
    LET size == component_types[data.ty].size
    IN  CASE data.orientation = "North" -> p
          [] data.orientation = "East"  -> Point_new(size.height - p.y, p.x)
          [] data.orientation = "South" -> Point_new(size.width - p.x, size.height - p.y)
          [] data.orientation = "West"  -> Point_new(p.y, size.width - p.x)

PinHalfSize == 3

\* ComponentInstance::pin_bounding_rect, pin i counted from 0
pin_bounding_rect(data, i) ==
    LET pin == component_types[data.ty].pins[i + 1]
        point == rotate_about_anchor(data,
                     Point_add(to_widget_space(pin.pos), instance_anchor_offset(data)))
    IN  [x0 |-> point.x - PinHalfSize, y0 |-> point.y - PinHalfSize,
         x1 |-> point.x + PinHalfSize, y1 |-> point.y + PinHalfSize]

\* ComponentInstance::bounding_rect
instance_bounding_rect(data) == bounding_rect(data.ty, data.coords, data.orientation)

\* The rect the WidgetPod of a component is laid out in: Canvas::layout sets
\* its origin, Component::layout its size
layout_rect(data) ==
    Rect_from_origin_size(Rect_origin(instance_bounding_rect(data)),
                          component_types[data.ty].size)

----------------------------------------------------------------------------
(* Widget identities, commands, events *)

\* ctx.widget_id() of the canvas; the widget of item id has identity id
CanvasWidgetId == -1
WidgetIdOf(id) == id

DESELECT_ALL(widget_id) == [selector |-> "DESELECT_ALL", payload |-> widget_id]
BEGIN_WIRE_DRAW(wire_draw) == [selector |-> "BEGIN_WIRE_DRAW", payload |-> wire_draw]

FromComponent(id, pin, loc) ==
    [variant |-> "FromComponent", id |-> id, pin |-> pin, loc |-> loc]

\* WireDraw::start_point
start_point(wire_draw) == wire_draw.loc

Min(S) == CHOOSE m \in S : \A n \in S : m <= n

KeepFocus == [kind |-> "keep", id |-> CanvasWidgetId]
ResignFocus == [kind |-> "resign", id |-> CanvasWidgetId]
RequestFocus(widget_id) == [kind |-> "focus", id |-> widget_id]

\* The EventCtx a child handles one event with: what its handler can change
EventCtx(id) ==
    [is_active |-> component_widgets[id].active, submitted |-> <<>>,
     is_handled |-> FALSE, focus_change |-> KeepFocus]

----------------------------------------------------------------------------
(* Component::event(ctx, event, data): the new data and the ctx it leaves *)

Component_MouseDown_always_deselect(id, ev, data, ctx) ==
    LET npins == Len(component_types[data.ty].pins)
        hits == {i \in 0..(npins - 1) : Rect_contains(pin_bounding_rect(data, i), ev.pos)}
    IN  IF hits /= {}
        THEN LET pin == Min(hits)
                 anchor == anchor_offset(data.ty, data.orientation)
                 loc == Coords_add(from_widget_space(Point_sub(ev.pos, anchor)), data.coords)
             IN  [data |-> data,
                  ctx |-> [ctx EXCEPT !.submitted =
                              Append(@, BEGIN_WIRE_DRAW(FromComponent(id, pin, loc)))]]
        ELSE [data |-> [data EXCEPT !.selected = TRUE,
                                    !.dragging = Some([coords |-> data.coords,
                                                       mouse_origin |-> ev.window_pos])],
              ctx |-> [ctx EXCEPT
                          !.submitted = IF ~ev.ctrl
                                           THEN Append(@, DESELECT_ALL(WidgetIdOf(id)))
                                           ELSE @,
                          !.is_active = TRUE,
                          !.focus_change = RequestFocus(WidgetIdOf(id)),
                          !.is_handled = TRUE]]

Component_MouseDown(id, ev, data, ctx) ==
    LET npins == Len(component_types[data.ty].pins)
        hits == {i \in 0..(npins - 1) : Rect_contains(pin_bounding_rect(data, i), ev.pos)}
    IN  IF hits /= {}
        THEN LET pin == Min(hits)
                 anchor == anchor_offset(data.ty, data.orientation)
                 loc == Coords_add(from_widget_space(Point_sub(ev.pos, anchor)), data.coords)
             IN  [data |-> data,
                  ctx |-> [ctx EXCEPT !.submitted =
                              Append(@, BEGIN_WIRE_DRAW(FromComponent(id, pin, loc)))]]
        ELSE [data |-> [data EXCEPT !.selected = TRUE,
                                    !.dragging = Some([coords |-> data.coords,
                                                       mouse_origin |-> ev.window_pos])],
              ctx |-> [ctx EXCEPT
                          !.submitted = IF ~data.selected /\ ~ev.ctrl
                                           THEN Append(@, DESELECT_ALL(WidgetIdOf(id)))
                                           ELSE @,
                          !.is_active = TRUE,
                          !.focus_change = RequestFocus(WidgetIdOf(id)),
                          !.is_handled = TRUE]]

Component_MouseUp(id, ev, data, ctx) ==
    [data |-> [data EXCEPT !.dragging = None],
     ctx |-> [ctx EXCEPT !.is_active = FALSE]]

Component_MouseMove_cumulative(id, ev, data, ctx) ==
    IF is_some(data.dragging)
    THEN LET coords == data.coords
             mouse_origin == unwrap(data.dragging).mouse_origin
             delta == Point_sub(ev.window_pos, mouse_origin)
         IN  [data |-> [data EXCEPT !.coords =
                           Coords_add(coords, from_widget_space(delta))],
              ctx |-> ctx]
    ELSE [data |-> data, ctx |-> ctx]

Component_MouseMove_unanchored(id, ev, data, ctx) ==
    IF is_some(data.dragging)
    THEN LET coords == unwrap(data.dragging).coords
             mouse_origin == unwrap(data.dragging).mouse_origin
             delta == Point_sub(ev.window_pos, mouse_origin)
         IN  [data |-> [data EXCEPT !.coords =
                           Coords_add(coords, from_widget_space(delta))],
              ctx |-> ctx]
    ELSE [data |-> [data EXCEPT !.coords = from_widget_space(ev.window_pos)],
          ctx |-> ctx]

Component_MouseMove(id, ev, data, ctx) ==
    IF is_some(data.dragging)
    THEN LET coords == unwrap(data.dragging).coords
             mouse_origin == unwrap(data.dragging).mouse_origin
             delta == Point_sub(ev.window_pos, mouse_origin)
         IN  [data |-> [data EXCEPT !.coords =
                           Coords_add(coords, from_widget_space(delta))],
              ctx |-> ctx]
    ELSE [data |-> data, ctx |-> ctx]

Component_KeyDown(id, ev, data, ctx) ==
    LET orientation ==
            CASE ev.key = "w" -> "North"
              [] ev.key = "a" -> "West"
              [] ev.key = "s" -> "South"
              [] ev.key = "d" -> "East"
              [] OTHER -> data.orientation
    IN  [data |-> [data EXCEPT !.orientation = orientation], ctx |-> ctx]

Component_DeselectAll_everyone(id, ev, data, ctx) ==
    [data |-> [data EXCEPT !.selected = FALSE],
     ctx |-> [ctx EXCEPT !.is_active = FALSE,
                         !.focus_change = IF focus = Some(WidgetIdOf(id))
                                             THEN ResignFocus ELSE @]]

\* Event::Command(c) if c.is(DESELECT_ALL)
Component_DeselectAll(id, ev, data, ctx) ==
    IF ev.command.payload /= WidgetIdOf(id)
    THEN [data |-> [data EXCEPT !.selected = FALSE],
          ctx |-> [ctx EXCEPT !.is_active = FALSE,
                              !.focus_change = IF focus = Some(WidgetIdOf(id))
                                                  THEN ResignFocus ELSE @]]
    ELSE [data |-> data, ctx |-> ctx]

Component_event(id, ev, data, ctx) ==
    CASE ev.kind = "MouseDown" -> Component_MouseDown(id, ev, data, ctx)
      [] ev.kind = "MouseUp"   -> Component_MouseUp(id, ev, data, ctx)
      [] ev.kind = "MouseMove" -> Component_MouseMove(id, ev, data, ctx)
      [] ev.kind = "KeyDown"   -> Component_KeyDown(id, ev, data, ctx)
      [] ev.kind = "Command" /\ ev.command.selector = "DESELECT_ALL"
                               -> Component_DeselectAll(id, ev, data, ctx)
      [] OTHER -> [data |-> data, ctx |-> ctx]

----------------------------------------------------------------------------
(* Canvas::event, the routing to the children.  widget.event is druid's      *)
(* WidgetPod::event: it returns at once when the event is already handled;  *)
(* a mouse event updates the hot flag of the child from its layout rect and  *)
(* reaches the child when it is active or hot (a move also when it just     *)
(* stopped being hot), with pos made relative to the origin of the child;   *)
(* a key event reaches the child that has the focus; a command reaches      *)
(* every child.                                                             *)

\* What widget.event does to child id when the event is not yet handled: the
\* data and the ctx the child leaves, and its hot flag
WidgetPod_event(id, ev) ==
    LET data == components[id]
        ctx == EventCtx(id)
        was_hot == component_widgets[id].hot
        is_mouse == ev.kind \in {"MouseDown", "MouseUp", "MouseMove"}
        rect == layout_rect(data)
        had_active == ctx.is_active
        is_hot == IF is_mouse THEN Rect_contains(rect, ev.pos) ELSE was_hot
        hot_changed == is_hot /= was_hot
        recurse == IF is_mouse
                   THEN \/ had_active
                        \/ is_hot
                        \/ (ev.kind = "MouseMove" /\ hot_changed)
                   ELSE IF ev.kind = "KeyDown"
                   THEN focus = Some(WidgetIdOf(id))
                   ELSE TRUE
        child_ev == IF is_mouse
                    THEN [ev EXCEPT !.pos = Point_sub(ev.pos, Rect_origin(rect))]
                    ELSE ev
    IN  IF recurse
        THEN Component_event(id, child_ev, data, ctx) @@ [hot |-> is_hot]
        ELSE [data |-> data, ctx |-> ctx, hot |-> is_hot]

Max(S) == CHOOSE m \in S : \A n \in S : m >= n

\* What the loop over the children leaves, outcomes holding for each child
\* what widget.event does to it when it is reached: a child is reached unless
\* a child with a smaller id has set the event handled; the commands the
\* children submit (each handler submits at most one) queue up in that order;
\* the last request_focus / resign_focus is the one that counts
merge_outcomes(outcomes, queue) ==
    LET handlers == {o.id : o \in {h \in outcomes : h.ctx.is_handled}}
        reached == {o \in outcomes : \A j \in handlers : o.id <= j}
        reached_ids == {o.id : o \in reached}
        of(id) == CHOOSE o \in reached : o.id = id
        submitters == {o.id : o \in {r \in reached : r.ctx.submitted /= <<>>}}
        nth(i) == CHOOSE id \in submitters :
                      Cardinality({j \in submitters : j < id}) = i - 1
        refocus == {o.id : o \in {r \in reached : r.ctx.focus_change /= KeepFocus}}
    IN  [components |->
            IF reached = {} THEN components
            ELSE [id \in DOMAIN components |->
                    IF id \in reached_ids THEN of(id).data ELSE components[id]],
         widgets |->
            IF reached = {} THEN component_widgets
            ELSE [id \in DOMAIN component_widgets |->
                    IF id \in reached_ids
                    THEN [active |-> of(id).ctx.is_active, hot |-> of(id).hot]
                    ELSE component_widgets[id]],
         commands |->
            IF submitters = {} THEN queue
            ELSE queue \o [i \in 1..Cardinality(submitters) |->
                              Head(of(nth(i)).ctx.submitted)],
         handled |-> handlers /= {},
         focus_change |->
            IF refocus = {} THEN KeepFocus
            ELSE of(Max(refocus)).ctx.focus_change]

\* for (id, widget) in self.components.iter_mut() { widget.event(..) }, in
\* ascending id, on top of the command queue
for_each_component(ids, ev, queue) ==
    merge_outcomes({[id |-> id] @@ WidgetPod_event(id, ev) : id \in ids}, queue)

\* The wires are offered the event first; Wire::event does nothing
route_to_children(ev) ==
    for_each_component(DOMAIN component_widgets, ev, commands)

\* The focus after the dispatch: request_focus / resign_focus take effect then
focus_after(acc) ==
    CASE acc.focus_change.kind = "keep"   -> focus
      [] acc.focus_change.kind = "resign" -> None
      [] acc.focus_change.kind = "focus"  -> Some(acc.focus_change.id)

----------------------------------------------------------------------------
(* Canvas::event *)

\* Pointer positions of Spec: (100,100) is cell (6,6); (104,72) is cell (6,4)
\* and the output pin of a North gate anchored at (6,6); (200,100) is cell
\* (12,6), on neither axis of (6,4)
Pixels == { Point_new(100, 100), Point_new(104, 72), Point_new(200, 100) }

\* Pointer positions of SpecKeys
PixelsKeys == Pixels \cup { Point_new(0, 0), Point_new(40, 24), Point_new(200, 72) }

\* Keys of Spec
KeysMain == {" ", "2"}

Buttons == {"Left", "Right"}

Keys == {" ", "0", "1", "2", "3", "4", "5", "6", "7", "8", "9",
         "w", "a", "s", "d", "q"}

Digits == {"0", "1", "2", "3", "4", "5", "6", "7", "8", "9"}

DigitValue(s) ==
    CASE s = "0" -> 0 [] s = "1" -> 1 [] s = "2" -> 2 [] s = "3" -> 3
      [] s = "4" -> 4 [] s = "5" -> 5 [] s = "6" -> 6 [] s = "7" -> 7
      [] s = "8" -> 8 [] s = "9" -> 9

U16 == 65536

digit_index_no_sub(s) == DigitValue(s) % U16

\* u16::from_str_radix(&s, 10).unwrap().wrapping_sub(1) as usize
digit_index(s) == (DigitValue(s) - 1) % U16

KeyOrientation(s) ==
    CASE s = "w" -> "North" [] s = "a" -> "West"
      [] s = "s" -> "South" [] s = "d" -> "East"

\* The match on (&key_event.key, &*tool) of the KeyDown arm
new_tool_for_key(s, t, last) ==
    IF s = " " THEN Hand
    ELSE IF s \in Digits
    THEN LET n == digit_index(s)
         IN  IF n < Len(component_types) THEN Place(n + 1, last) ELSE t
    ELSE IF t.kind = "Place" /\ s \in {"w", "a", "s", "d"}
    THEN Place(t.ty, KeyOrientation(s))
    ELSE t

fetch_add_no_increment(n) == n

\* The value of NEXT_ITEM_ID after fetch_add(1), which returns the old value n
fetch_add(n) == n + 1

InputEnabled ==
    /\ window_connected
    /\ ~panicked
    /\ commands = <<>>

\* A button event reports the position of the pointer, which only MouseMove
\* changes; the first event of a run may be a button event anywhere
PointerAt(pos) == pointer = None \/ pointer = Some(pos)

\* The state the children leave behind, when the canvas itself changes
\* nothing more than the listed variables
ChildrenDone(acc) ==
    /\ components' = acc.components
    /\ component_widgets' = acc.widgets
    /\ commands' = acc.commands
    /\ focus' = focus_after(acc)

WindowConnected ==
    /\ ~window_connected
    /\ ~panicked
    /\ window_connected' = TRUE
    /\ focus' = Some(CanvasWidgetId)
    /\ last_command' = None
    /\ UNCHANGED <<wires, components, tool, mouse_pos, last_orientation, drawing,
                   wire_widgets, component_widgets, next_item_id, alloc_log,
                   commands, pointer, panicked, call,
                   canvas_state>>

\* The KeyDown arm, after the children
Canvas_KeyDown(acc, key) ==
    /\ ChildrenDone(acc)
    /\ tool' = IF acc.handled THEN tool
               ELSE new_tool_for_key(key, tool, last_orientation)

KeyDown(key) ==
    /\ InputEnabled
    /\ is_some(focus)
    /\ Canvas_KeyDown(route_to_children([kind |-> "KeyDown", key |-> key]), key)
    /\ last_command' = None
    /\ UNCHANGED <<wires, mouse_pos, last_orientation, drawing, wire_widgets,
                   next_item_id, alloc_log, window_connected, pointer,
                   panicked, call,
                   canvas_state>>

\* The MouseMove arm, after the children
Canvas_MouseMove(acc, pos) ==
    /\ ChildrenDone(acc)
    /\ mouse_pos' = IF acc.handled THEN mouse_pos
                    ELSE Some(from_canvas_space(pos))

MouseMove(pos) ==
    /\ InputEnabled
    /\ Canvas_MouseMove(
           route_to_children([kind |-> "MouseMove", pos |-> pos, window_pos |-> pos]),
           pos)
    /\ pointer' = Some(pos)
    /\ last_command' = None
    /\ UNCHANGED <<wires, tool, last_orientation, drawing, wire_widgets,
                   next_item_id, alloc_log, window_connected, panicked, call,
                   canvas_state>>

MouseDownEvent(pos, button, ctrl) ==
    [kind |-> "MouseDown", pos |-> pos, window_pos |-> pos,
     button |-> button, ctrl |-> ctrl]

Canvas_MouseDown_ignoring_handled(acc, pos, button) ==
    /\ focus' = focus_after(acc)
    /\ IF button = "Left" /\ tool.kind = "Hand"
       THEN /\ commands' = Append(acc.commands, DESELECT_ALL(CanvasWidgetId))
            /\ components' = acc.components
            /\ component_widgets' = acc.widgets
            /\ UNCHANGED <<next_item_id, alloc_log>>
       ELSE IF button = "Left" /\ tool.kind = "Place"
       THEN LET coords == from_canvas_space(pos)
                id == next_item_id
            IN  /\ next_item_id < MaxItems
                /\ next_item_id' = fetch_add(next_item_id)
                /\ alloc_log' = Append(alloc_log, id)
                /\ component_widgets' =
                       acc.widgets @@ (id :> [active |-> FALSE, hot |-> FALSE])
                /\ components' =
                       acc.components @@
                       (id :> ComponentState_new(coords, tool.ty, tool.orientation))
                /\ commands' = acc.commands
       ELSE /\ ChildrenDone(acc)
            /\ UNCHANGED <<next_item_id, alloc_log>>

\* The MouseDown arms (Tool::Hand, Tool::Place), after the children
Canvas_MouseDown(acc, pos, button) ==
    /\ focus' = focus_after(acc)
    /\ IF ~acc.handled /\ button = "Left" /\ tool.kind = "Hand"
       THEN /\ commands' = Append(acc.commands, DESELECT_ALL(CanvasWidgetId))
            /\ components' = acc.components
            /\ component_widgets' = acc.widgets
            /\ UNCHANGED <<next_item_id, alloc_log>>
       ELSE IF ~acc.handled /\ button = "Left" /\ tool.kind = "Place"
       THEN LET coords == from_canvas_space(pos)
                id == next_item_id
            IN  /\ next_item_id < MaxItems
                /\ next_item_id' = fetch_add(next_item_id)
                /\ alloc_log' = Append(alloc_log, id)
                /\ component_widgets' =
                       acc.widgets @@ (id :> [active |-> FALSE, hot |-> FALSE])
                /\ components' =
                       acc.components @@
                       (id :> ComponentState_new(coords, tool.ty, tool.orientation))
                /\ commands' = acc.commands
       ELSE /\ ChildrenDone(acc)
            /\ UNCHANGED <<next_item_id, alloc_log>>

MouseDown(pos, button, ctrl) ==
    /\ InputEnabled
    /\ PointerAt(pos)
    /\ pointer' = Some(pos)
    /\ Canvas_MouseDown(route_to_children(MouseDownEvent(pos, button, ctrl)),
                        pos, button)
    /\ last_command' = None
    /\ UNCHANGED <<wires, tool, mouse_pos, last_orientation, drawing,
                   wire_widgets, window_connected, panicked, call,
                   canvas_state>>

Canvas_MouseUp_state_only(acc, button) ==
    /\ ChildrenDone(acc)
    /\ IF ~acc.handled /\ button = "Left" /\ tool.kind = "Hand"
       THEN IF is_some(drawing) /\ mouse_pos = None
            THEN \* data.mouse_pos.unwrap() of None
                 /\ panicked' = TRUE
                 /\ UNCHANGED <<wires, wire_widgets, next_item_id,
                                alloc_log, drawing>>
            ELSE LET segment ==
                         IF is_some(drawing)
                         THEN WireSegment_new(start_point(unwrap(drawing)),
                                              unwrap(mouse_pos))
                         ELSE None
                     id == next_item_id
                 IN  /\ IF is_some(segment)
                        THEN /\ next_item_id < MaxItems
                             /\ next_item_id' = fetch_add(next_item_id)
                             /\ alloc_log' = Append(alloc_log, id)
                             /\ wire_widgets' = wire_widgets
                             /\ wires' = wires @@
                                   (id :> [segments |-> <<unwrap(segment)>>])
                        ELSE UNCHANGED <<wires, wire_widgets, next_item_id,
                                         alloc_log>>
                     /\ drawing' = None
                     /\ UNCHANGED panicked
       ELSE UNCHANGED <<wires, wire_widgets, next_item_id, alloc_log,
                        drawing, panicked>>

\* The MouseUp arm (Tool::Hand), after the children
Canvas_MouseUp(acc, button) ==
    /\ ChildrenDone(acc)
    /\ IF ~acc.handled /\ button = "Left" /\ tool.kind = "Hand"
       THEN IF is_some(drawing) /\ mouse_pos = None
            THEN \* data.mouse_pos.unwrap() of None
                 /\ panicked' = TRUE
                 /\ UNCHANGED <<wires, wire_widgets, next_item_id,
                                alloc_log, drawing>>
            ELSE LET segment ==
                         IF is_some(drawing)
                         THEN WireSegment_new(start_point(unwrap(drawing)),
                                              unwrap(mouse_pos))
                         ELSE None
                     id == next_item_id
                 IN  /\ IF is_some(segment)
                        THEN /\ next_item_id < MaxItems
                             /\ next_item_id' = fetch_add(next_item_id)
                             /\ alloc_log' = Append(alloc_log, id)
                             /\ wire_widgets' = wire_widgets \cup {id}
                             /\ wires' = wires @@
                                   (id :> [segments |-> <<unwrap(segment)>>])
                        ELSE UNCHANGED <<wires, wire_widgets, next_item_id,
                                         alloc_log>>
                     /\ drawing' = None
                     /\ UNCHANGED panicked
       ELSE UNCHANGED <<wires, wire_widgets, next_item_id, alloc_log,
                        drawing, panicked>>

MouseUp(pos, button) ==
    /\ InputEnabled
    /\ PointerAt(pos)
    /\ pointer' = Some(pos)
    /\ Canvas_MouseUp(
           route_to_children([kind |-> "MouseUp", pos |-> pos, window_pos |-> pos,
                              button |-> button]),
           button)
    /\ last_command' = None
    /\ UNCHANGED <<tool, mouse_pos, last_orientation, window_connected, call,
                   canvas_state>>

\* The Command arm (BEGIN_WIRE_DRAW), after the children
Canvas_Command(acc, c) ==
    /\ ChildrenDone(acc)
    /\ drawing' = IF ~acc.handled /\ c.selector = "BEGIN_WIRE_DRAW"
                     THEN Some(c.payload) ELSE drawing
    /\ last_command' = Some(c)

\* The first queued command, dispatched as Event::Command
DeliverCommand ==
    /\ window_connected
    /\ ~panicked
    /\ commands /= <<>>
    /\ Canvas_Command(
           for_each_component(DOMAIN component_widgets,
                              [kind |-> "Command", command |-> Head(commands)],
                              Tail(commands)),
           Head(commands))
    /\ UNCHANGED <<wires, tool, mouse_pos, last_orientation, wire_widgets,
                   next_item_id, alloc_log, window_connected, pointer,
                   panicked, call,
                   canvas_state>>

Init ==
    /\ CanvasInit
    /\ call = [fn |-> "none"]

Next ==
    \/ WindowConnected
    \/ \E key \in KeysMain : KeyDown(key)
    \/ \E pos \in Pixels : MouseMove(pos)
    \/ \E pos \in Pixels, button \in Buttons, ctrl \in BOOLEAN :
          MouseDown(pos, button, ctrl)
    \/ \E pos \in Pixels, button \in Buttons : MouseUp(pos, button)
    \/ DeliverCommand

Spec == Init /\ [][Next]_vars

\* The keyboard protocol: every key and pointer moves, no button event
NextKeys ==
    \/ WindowConnected
    \/ \E key \in Keys : KeyDown(key)
    \/ \E pos \in PixelsKeys : MouseMove(pos)

SpecKeys == Init /\ [][NextKeys]_vars

----------------------------------------------------------------------------
(* The pure functions, each applied once to inputs drawn by InitFn *)

InitFn ==
    /\ CanvasInit
    /\ call \in [fn : {"input"}, a : Cells, b : Cells,
                 ty : TypeIds, o : Orientation, ret : {None}]

CallWireSegmentNew ==
    /\ call.fn = "input"
    /\ call' = [call EXCEPT !.fn = "WireSegment::new",
                            !.ret = WireSegment_new(call.a, call.b)]
    /\ UNCHANGED canvas_vars

\* the preview of Canvas::paint: start point a, pointer cell b
CallPaintPreview ==
    /\ call.fn = "input"
    /\ call' = [call EXCEPT !.fn = "paint preview",
                            !.ret = WireSegment_new(call.a, snap(call.a, call.b))]
    /\ UNCHANGED canvas_vars

CallToGridOfToPixel ==
    /\ call.fn = "input"
    /\ call' = [call EXCEPT !.fn = "from_canvas_space(to_widget_space)",
                            !.ret = from_canvas_space(to_widget_space(call.a))]
    /\ UNCHANGED canvas_vars

CallCanvasRoundTrip ==
    /\ call.fn = "input"
    /\ call' = [call EXCEPT !.fn = "from_canvas_space(to_canvas_space)",
                            !.ret = from_canvas_space(to_canvas_space(call.a))]
    /\ UNCHANGED canvas_vars

CallWidgetRoundTrip ==
    /\ call.fn = "input"
    /\ call' = [call EXCEPT !.fn = "from_widget_space(to_widget_space)",
                            !.ret = from_widget_space(to_widget_space(call.a))]
    /\ UNCHANGED canvas_vars

CallBoundingRect ==
    /\ call.fn = "input"
    /\ call' = [call EXCEPT !.fn = "bounding_rect",
                            !.ret = bounding_rect(call.ty, call.a, call.o)]
    /\ UNCHANGED canvas_vars

NextFn ==
    \/ CallWireSegmentNew
    \/ CallPaintPreview
    \/ CallToGridOfToPixel
    \/ CallCanvasRoundTrip
    \/ CallWidgetRoundTrip
    \/ CallBoundingRect

SpecFn == InitFn /\ [][NextFn]_vars

----------------------------------------------------------------------------
(* One placed component of any catalog entry and orientation, and the       *)
(* pointer on and around its pins                                           *)

\* The anchor cell of the component of InitPins, stamped at its centre pixel
PinCell == Coords_new(6, 6)

\* Offsets from the centre of a pin: the centre and two pixels strictly
\* inside its 6x6 region, clear of the region's edges
PinDeltas == { Point_new(-2, -2), Point_new(0, 0), Point_new(2, 2) }

\* The centre of pin i, in the coordinates of the component widget
pin_center(data, i) ==
    Point_new(pin_bounding_rect(data, i).x0 + PinHalfSize,
              pin_bounding_rect(data, i).y0 + PinHalfSize)

\* The pointer position over pin i at offset delta from its centre: the
\* widget is laid out at the origin of the bounding rect
pin_pixel(data, i, delta) ==
    Point_add(Point_add(Rect_origin(instance_bounding_rect(data)), pin_center(data, i)),
              delta)

PlacedAtPinCell ==
    { ComponentState_new(PinCell, ty, o) : ty \in TypeIds, o \in Orientation }

\* The pointer positions on the pins of the components there are
PinTargets ==
    UNION { { pin_pixel(components[id], i, delta) :
                i \in 0..(Len(component_types[components[id].ty].pins) - 1),
                delta \in PinDeltas } : id \in DOMAIN components }

\* The canvas after a digit key, an orientation key, a click on the centre of
\* PinCell and the space key
InitPins ==
    /\ components \in { (0 :> data) : data \in PlacedAtPinCell }
    /\ component_widgets = (0 :> [active |-> FALSE, hot |-> FALSE])
    /\ wires = <<>>
    /\ wire_widgets = {}
    /\ tool = Hand
    /\ mouse_pos = Some(PinCell)
    /\ last_orientation = "North"
    /\ drawing = None
    /\ next_item_id = 1
    /\ alloc_log = <<0>>
    /\ commands = <<>>
    /\ focus = Some(CanvasWidgetId)
    /\ window_connected = TRUE
    /\ pointer = Some(to_canvas_space(PinCell))
    /\ last_command = None
    /\ panicked = FALSE
    /\ call = [fn |-> "none"]
    /\ canvas_state = App_new

NextPins ==
    \/ \E pos \in PinTargets : MouseMove(pos)
    \/ \E pos \in PinTargets : MouseDown(pos, "Left", FALSE)
    \/ \E pos \in PinTargets : MouseUp(pos, "Left")
    \/ DeliverCommand

SpecPins == InitPins /\ [][NextPins]_vars

----------------------------------------------------------------------------
(* Two square gates side by side under the Hand tool, and the pointer on the *)
(* seam between them                                                        *)

\* Gate 0 at cell (6,6) covers x in [80,128), gate 1 at cell (9,6) covers
\* x in [128,176), both y in [72,120): (130,100) is on the body of gate 1, two
\* pixels from its left edge; (124,100) is on the body of gate 0, less than
\* half a cell away, and so is (127,100), so that a drag between them moves
\* no gate
DragPixels == { Point_new(130, 100), Point_new(124, 100), Point_new(127, 100) }

\* The catalog entries with the 48x48 footprint: AND, OR, NAND
SquareTypes ==
    { ty \in TypeIds : component_types[ty].size = Size_new(48, 48) }

\* The canvas after a digit key and a click on the centre of cell (6,6), a
\* digit key and a click on the centre of cell (9,6), and the space key
InitDrag ==
    /\ components \in
          { (0 :> ComponentState_new(Coords_new(6, 6), ty0, "North"))
            @@ (1 :> ComponentState_new(Coords_new(9, 6), ty1, "North")) :
                ty0 \in SquareTypes, ty1 \in SquareTypes }
    /\ component_widgets = (0 :> [active |-> FALSE, hot |-> FALSE])
                           @@ (1 :> [active |-> FALSE, hot |-> FALSE])
    /\ wires = <<>>
    /\ wire_widgets = {}
    /\ tool = Hand
    /\ mouse_pos = Some(Coords_new(9, 6))
    /\ last_orientation = "North"
    /\ drawing = None
    /\ next_item_id = 2
    /\ alloc_log = <<0, 1>>
    /\ commands = <<>>
    /\ focus = Some(CanvasWidgetId)
    /\ window_connected = TRUE
    /\ pointer = Some(to_canvas_space(Coords_new(9, 6)))
    /\ last_command = None
    /\ panicked = FALSE
    /\ call = [fn |-> "none"]
    /\ canvas_state = App_new

NextDrag ==
    \/ \E pos \in DragPixels : MouseMove(pos)
    \/ \E pos \in DragPixels, button \in Buttons, ctrl \in BOOLEAN :
          MouseDown(pos, button, ctrl)
    \/ \E pos \in DragPixels, button \in Buttons : MouseUp(pos, button)
    \/ DeliverCommand

SpecDrag == InitDrag /\ [][NextDrag]_vars

----------------------------------------------------------------------------
(* A square gate under the Hand tool with the pointer on and just off its   *)
(* left edge, and a second gate out of the pointer's reach                  *)

\* The gate at cell (9,6) covers x in [128,176), y in [72,120): (130,100) is
\* on its body, two pixels from its left edge; (124,100) and (127,100) are on
\* the empty canvas left of it, less than half a cell away, so that a drag
\* between them does not move the gate.  Gate 1 at cell (20,6) covers x in
\* [304,352)
GrabPixels == DragPixels

\* The canvas after a digit key, clicks on the centres of cells (9,6) and
\* (20,6), the space key, possibly a click and release on gate 1 that left it
\* selected, and a move back to cell (9,6)
InitGrab ==
    /\ components \in
          { (0 :> ComponentState_new(Coords_new(9, 6), ty0, "North"))
            @@ (1 :> [ComponentState_new(Coords_new(20, 6), ty0, "North")
                        EXCEPT !.selected = sel]) :
                ty0 \in SquareTypes, sel \in BOOLEAN }
    /\ component_widgets = (0 :> [active |-> FALSE, hot |-> FALSE])
                           @@ (1 :> [active |-> FALSE, hot |-> FALSE])
    /\ wires = <<>>
    /\ wire_widgets = {}
    /\ tool = Hand
    /\ mouse_pos = Some(Coords_new(9, 6))
    /\ last_orientation = "North"
    /\ drawing = None
    /\ next_item_id = 2
    /\ alloc_log = <<0, 1>>
    /\ commands = <<>>
    /\ focus = Some(CanvasWidgetId)
    /\ window_connected = TRUE
    /\ pointer = Some(to_canvas_space(Coords_new(9, 6)))
    /\ last_command = None
    /\ panicked = FALSE
    /\ call = [fn |-> "none"]
    /\ canvas_state = App_new

NextGrab ==
    \/ \E pos \in GrabPixels : MouseMove(pos)
    \/ \E pos \in GrabPixels, button \in Buttons, ctrl \in BOOLEAN :
          MouseDown(pos, button, ctrl)
    \/ \E pos \in GrabPixels, button \in Buttons : MouseUp(pos, button)
    \/ DeliverCommand

SpecGrab == InitGrab /\ [][NextGrab]_vars

----------------------------------------------------------------------------
(* The drag-lift variant: App::update of main.rs.  Its canvas module is not  *)
(* part of the sources; a component of that variant is a cell and a catalog *)
(* entry, and its helpers follow the geometry of the specification.         *)

\* Component::new(x, y, ty) of the drag-lift variant
LegacyComponent_new(x, y, ty) == [x |-> x, y |-> y, ty |-> ty]

\* Component::bounding_rect of the drag-lift variant: boundingRect of the
\* catalog entry at the cell of the component, facing North
legacy_bounding_rect(c) == bounding_rect(c.ty, Coords_new(c.x, c.y), "North")

\* Rectangle::center
Rect_center(r) == Point_new((r.x0 + r.x1) \div 2, (r.y0 + r.y1) \div 2)

\* Canvas::mouse_to_coords: toGrid
mouse_to_coords(p) == from_canvas_space(p)

\* The cells AddComponent and Drag name, and the pointer positions of the
\* hand tool: the centres of the two cells and a pixel on the empty canvas
LegacyCells == { Coords_new(6, 6), Coords_new(9, 6) }

LegacyPixels == { Point_new(104, 104), Point_new(152, 104), Point_new(300, 300) }

\* The indices the while loop may stop at: those of the components whose
\* bounding rect contains pos; it stops at the first
hit_indices(pos) ==
    { i \in 1..Len(canvas_state.components) :
        Rect_contains(legacy_bounding_rect(canvas_state.components[i]), pos) }

\* Vec::remove(i), i counted from 1
Vec_remove(v, i) == [j \in 1..(Len(v) - 1) |-> IF j < i THEN v[j] ELSE v[j + 1]]

\* What no message of the drag-lift variant touches
LegacyFrame ==
    UNCHANGED <<wires, components, tool, mouse_pos, last_orientation, drawing,
                wire_widgets, component_widgets, next_item_id, alloc_log,
                commands, focus, window_connected, pointer, last_command, call>>

\* Message::AddComponent((x, y), ty)
AddComponent(x, y, ty) ==
    /\ ~panicked
    /\ Len(canvas_state.components) + Len(canvas_state.dragging) < MaxItems
    /\ canvas_state' =
           [canvas_state EXCEPT
               !.components = Append(@, LegacyComponent_new(x, y, ty))]
    /\ UNCHANGED panicked
    /\ LegacyFrame

\* Message::HandToolMouseDown(pos)
HandToolMouseDown(pos) ==
    /\ ~panicked
    /\ IF hit_indices(pos) /= {}
       THEN LET i == Min(hit_indices(pos))
                component == canvas_state.components[i]
                difference ==
                    Point_add(Point_sub(Rect_center(legacy_bounding_rect(component)),
                                        pos),
                              Point_new(0, 8))
            IN  canvas_state' =
                    [canvas_state EXCEPT
                        !.components = Vec_remove(@, i),
                        !.dragging = Some([component |-> component,
                                           mouse_offset |-> difference])]
       ELSE UNCHANGED canvas_state
    /\ UNCHANGED panicked
    /\ LegacyFrame

\* Message::HandToolMouseUp(pos)
HandToolMouseUp(pos) ==
    /\ ~panicked
    /\ IF is_some(canvas_state.dragging)
       THEN LET dragging == unwrap(canvas_state.dragging)
                c == mouse_to_coords(Point_add(pos, dragging.mouse_offset))
            IN  canvas_state' =
                    [canvas_state EXCEPT
                        !.dragging = None,
                        !.components =
                            Append(@, [dragging.component EXCEPT
                                          !.x = c.x, !.y = c.y])]
       ELSE UNCHANGED canvas_state
    /\ UNCHANGED panicked
    /\ LegacyFrame

\* Message::Drag((x, y))
Drag(x, y) ==
    /\ ~panicked
    /\ IF canvas_state.dragging = None
       THEN \* self.canvas_state.dragging.as_mut().unwrap() of None
            /\ panicked' = TRUE
            /\ UNCHANGED canvas_state
       ELSE /\ canvas_state' =
                   [canvas_state EXCEPT !.dragging[1].component.x = x,
                                        !.dragging[1].component.y = y]
            /\ UNCHANGED panicked
    /\ LegacyFrame

\* Message::SwitchTool(tool)
SwitchTool(t) ==
    /\ ~panicked
    /\ canvas_state' = [canvas_state EXCEPT !.tool = t]
    /\ UNCHANGED panicked
    /\ LegacyFrame

NextLegacy ==
    \/ \E c \in LegacyCells, ty \in TypeIds : AddComponent(c.x, c.y, ty)
    \/ \E pos \in LegacyPixels : HandToolMouseDown(pos)
    \/ \E pos \in LegacyPixels : HandToolMouseUp(pos)
    \/ \E c \in LegacyCells : Drag(c.x, c.y)
    \/ \E t \in {"Hand", "Place"} : SwitchTool(t)

SpecLegacy == Init /\ [][NextLegacy]_vars

----------------------------------------------------------------------------
(* Button events at a position no MouseMove has reported: the pointer moves *)
(* while the window receives no motion events (it is covered by another     *)
(* window, or the pointer travels outside it), and the next event the       *)
(* canvas sees is a button event at the new position                        *)

\* The pointer moves and Canvas::event is not called.  Followed up to the
\* first MouseMove the canvas handles: from then on mouse_pos is known for
\* good
PointerMovesUnseen(pos) ==
    /\ InputEnabled
    /\ mouse_pos = None
    /\ pointer /= Some(pos)
    /\ pointer' = Some(pos)
    /\ UNCHANGED <<wires, components, tool, mouse_pos, last_orientation, drawing,
                   wire_widgets, component_widgets, next_item_id, alloc_log,
                   commands, focus, window_connected, last_command, panicked,
                   call, canvas_state>>

NextUnseen ==
    \/ Next
    \/ \E pos \in Pixels : PointerMovesUnseen(pos)

SpecUnseen == Init /\ [][NextUnseen]_vars

----------------------------------------------------------------------------
(* Properties *)

Range(f) == {f[i] : i \in DOMAIN f}

\* The children with a smaller id have been offered the event
offered_before(id, ev) ==
    for_each_component({j \in DOMAIN component_widgets : j < id}, ev, commands)

\* The event reaches component id and runs the body branch of its MouseDown
\* arm, the only place that marks an event handled
takes_body_branch(id, ev) ==
    /\ ~offered_before(id, ev).handled
    /\ WidgetPod_event(id, ev).ctx.is_handled

\* The pointer is inside the bounding rect of component id, outside its pin
\* regions, and inside the bounding rect of no other component
on_body(id, pos) ==
    LET data == components[id]
        rect == instance_bounding_rect(data)
        npins == Len(component_types[data.ty].pins)
    IN  /\ Rect_contains(rect, pos)
        /\ \A i \in 0..(npins - 1) :
              ~Rect_contains(pin_bounding_rect(data, i),
                             Point_sub(pos, Rect_origin(rect)))
        /\ \A j \in DOMAIN components \ {id} :
              ~Rect_contains(instance_bounding_rect(components[j]), pos)

\* C1: a left release in Hand tool while a wire draw with start cell s is
\* active and the last pointer cell is p registers a new wire whose single
\* segment runs from s to the clamped endpoint (y := s.y when
\* |p.x - s.x| > |p.y - s.y|, x := s.x otherwise).
C1_ReleaseRegistersClampedWire ==
    [][\A pos \in Pixels :
        (/\ tool.kind = "Hand"
         /\ PointerAt(pos)
         /\ is_some(drawing)
         /\ is_some(mouse_pos)
         /\ MouseUp(pos, "Left"))
        => LET s == start_point(unwrap(drawing))
               p == unwrap(mouse_pos)
               e == IF abs_diff(p.x, s.x) > abs_diff(p.y, s.y)
                        THEN Coords_new(p.x, s.y) ELSE Coords_new(s.x, p.y)
           IN  \E id \in (DOMAIN wires') \ (DOMAIN wires) :
                   wires'[id].segments = <<[start |-> s, end |-> e]>>]_vars

C3_DeselectAllSparesOriginator ==
    [][(/\ commands /= <<>>
        /\ Head(commands).selector = "DESELECT_ALL"
        /\ DeliverCommand)
       => \A id \in DOMAIN components :
             IF WidgetIdOf(id) = Head(commands).payload
                THEN components'[id].selected = components[id].selected
                ELSE components'[id].selected = FALSE]_vars

\* A deselect-all naming a selected component has been delivered while
\* another component exists
C3_Witness ==
    /\ is_some(last_command)
    /\ unwrap(last_command).selector = "DESELECT_ALL"
    /\ \E k \in DOMAIN components :
          /\ unwrap(last_command).payload = WidgetIdOf(k)
          /\ components[k].selected
          /\ \E j \in DOMAIN components : j /= k /\ ~components[j].selected

\* C4: pressing w/a/s/d while the tool is Place(entry, _) sets the tool to
\* Place(entry, North/West/South/East) and sets lastOrientation to that
\* orientation, so that a later digit key reuses it.
C4_OrientationKeyUpdatesLastOrientation ==
    [][\A key \in {"w", "a", "s", "d"} :
        (KeyDown(key) /\ tool.kind = "Place")
        => /\ tool' = Place(tool.ty, KeyOrientation(key))
           /\ last_orientation' = KeyOrientation(key)]_vars

IsStrictlyIncreasing(log) ==
    \A i, j \in 1..Len(log) : i < j => log[i] < log[j]

\* C5: the ids allocated from NEXT_ITEM_ID strictly increase in allocation
\* order, and every component and wire holds an id of its own: no id is a key
\* of both collections and the items are as many as the allocations.
C5_IdsStrictlyIncrease ==
    /\ IsStrictlyIncreasing(alloc_log)
    /\ (DOMAIN components) \cap (DOMAIN wires) = {}
    /\ (DOMAIN components) \cup (DOMAIN wires) = Range(alloc_log)
    /\ Cardinality(DOMAIN components) + Cardinality(DOMAIN wires) = Len(alloc_log)

\* A component and a wire have both been allocated
C5_Witness ==
    /\ Len(alloc_log) >= 2
    /\ DOMAIN components /= {}
    /\ DOMAIN wires /= {}

\* C6: WireSegment::new(a, b) returns a segment, with start a and end b, if
\* and only if a.x == b.x or a.y == b.y; otherwise it returns none.
C6_SegmentIffAxisAligned ==
    call.fn = "WireSegment::new"
    => IF call.a.x = call.b.x \/ call.a.y = call.b.y
          THEN call.ret = Some([start |-> call.a, end |-> call.b])
          ELSE call.ret = None

\* A segment of non-zero length along the y axis has been constructed
C6_Witness ==
    /\ call.fn = "WireSegment::new"
    /\ call.a.x = call.b.x
    /\ call.a.y /= call.b.y
    /\ is_some(call.ret)

\* C7: for all start cells s and pointer cells p the snapped endpoint of the
\* live preview (y := s.y when |p.x - s.x| > |p.y - s.y|, x := s.x otherwise)
\* forms a segment with s: the construction in the preview never fails.
C7_PreviewSegmentNeverFails ==
    call.fn = "paint preview"
    => LET s == call.a
           p == call.b
           e == IF abs_diff(p.x, s.x) > abs_diff(p.y, s.y)
                    THEN Coords_new(p.x, s.y) ELSE Coords_new(s.x, p.y)
       IN  call.ret = Some([start |-> s, end |-> e])

\* The preview of a tie: equal non-zero deltas on both axes
C7_Witness ==
    /\ call.fn = "paint preview"
    /\ abs_diff(call.a.x, call.b.x) = abs_diff(call.a.y, call.b.y)
    /\ call.a.x /= call.b.x
    /\ is_some(call.ret)

\* C8 (as stated): for every grid coordinate c,
\* from_canvas_space(to_widget_space(c)) == c.
C8_ToGridOfToPixelIsIdentity ==
    call.fn = "from_canvas_space(to_widget_space)" => call.ret = call.a

\* C8 (amended): for every grid coordinate c (zero and negative components
\* included) each conversion undoes its own inverse:
\* from_canvas_space(to_canvas_space(c)) == c and
\* from_widget_space(to_widget_space(c)) == c; the mixed composition
\* from_canvas_space(to_widget_space(c)) gives c on an axis whose component
\* is at least 1 and c - 1 on an axis whose component is 0 or negative.
C8_MatchedConversionsRoundTrip ==
    /\ call.fn = "from_canvas_space(to_canvas_space)" => call.ret = call.a
    /\ call.fn = "from_widget_space(to_widget_space)" => call.ret = call.a
    /\ call.fn = "from_canvas_space(to_widget_space)"
       => /\ call.ret.x = IF call.a.x >= 1 THEN call.a.x ELSE call.a.x - 1
          /\ call.ret.y = IF call.a.y >= 1 THEN call.a.y ELSE call.a.y - 1

\* The canvas-space round trip of a cell with a zero and a negative component
C8_Witness ==
    /\ call.fn = "from_canvas_space(to_canvas_space)"
    /\ call.a.x = 0
    /\ call.a.y < 0
    /\ call.ret = call.a

ClaimedSize(ty) == IF ty = 1 THEN Size_new(24, 48) ELSE Size_new(48, 48)

ClaimedAnchorOffset(ty, o) ==
    LET a == component_types[ty].anchor_offset
        w == ClaimedSize(ty).width
        h == ClaimedSize(ty).height
    IN  CASE o = "North" -> Point_new(a.x, a.y)
          [] o = "East"  -> Point_new(h - a.y, a.x)
          [] o = "South" -> Point_new(w - a.x, h - a.y)
          [] o = "West"  -> Point_new(a.y, w - a.x)

\* C9: for every catalog entry (NOT 24x48, AND/OR/NAND 48x48) and anchor cell
\* the bounding rect has the size of the entry for North and South and the
\* swapped size for East and West, so the four areas are equal, and its
\* top-left is the pixel position of the anchor (the centre of its cell in
\* canvas space) minus the effective anchor offset of the orientation.
C9_OrientationClosure ==
    call.fn = "bounding_rect"
    => LET r == call.ret
           w == ClaimedSize(call.ty).width
           h == ClaimedSize(call.ty).height
           off == ClaimedAnchorOffset(call.ty, call.o)
       IN  /\ call.o \in {"North", "South"}
              => Rect_width(r) = w /\ Rect_height(r) = h
           /\ call.o \in {"East", "West"}
              => Rect_width(r) = h /\ Rect_height(r) = w
           /\ Rect_width(r) * Rect_height(r) = w * h
           /\ r.x0 = 16 * call.a.x + 8 - off.x
           /\ r.y0 = 16 * call.a.y + 8 - off.y

\* The bounding rect of an East NOT gate: 48 wide, 24 high
C9_Witness ==
    /\ call.fn = "bounding_rect"
    /\ call.ty = 1
    /\ call.o = "East"
    /\ Rect_width(call.ret) = 48
    /\ Rect_height(call.ret) = 24

\* C10: a digit key n sets the tool to Place(catalog[n-1], lastOrientation)
\* exactly when 1 <= n <= 4 (component_types[n] here); every other digit
\* leaves the tool and the rest of the canvas state unchanged, and nothing
\* fails.
C10_DigitKeySelectsEntryInRange ==
    [][\A key \in Digits :
        KeyDown(key)
        => LET n == DigitValue(key)
           IN  /\ IF 1 <= n /\ n <= 4
                     THEN tool' = Place(n, last_orientation)
                     ELSE tool' = tool
               /\ ~panicked'
               /\ UNCHANGED <<wires, components, mouse_pos, last_orientation,
                              drawing, wire_widgets, component_widgets,
                              next_item_id, commands>>]_vars

\* Digit 4 has selected the last catalog entry
C10_Witness ==
    tool = Place(4, last_orientation)

\* toGrid of the specification: round((p - halfCell) / cellSize) on each axis
toGrid(p) == Coords_new(round(p.x - HalfCell, CellSize), round(p.y - HalfCell, CellSize))

\* C11: with tool Place(entry, o), a left-button down at pixel P inserts
\* exactly one new component, under the freshly allocated id, with
\* coords = toGrid(P), type entry, orientation o, selected == false and no drag
\* anchor; the tool stays Place(entry, o) and every component and wire that
\* existed before is unchanged.
C11_PlaceClickInsertsOneComponent ==
    [][\A pos \in Pixels : \A ctrl \in BOOLEAN :
        (/\ tool.kind = "Place"
         /\ PointerAt(pos)
         /\ MouseDown(pos, "Left", ctrl))
        => /\ DOMAIN components' = DOMAIN components \cup {next_item_id}
           /\ next_item_id \notin DOMAIN components
           /\ next_item_id \notin DOMAIN wires
           /\ components'[next_item_id] =
                  [coords |-> toGrid(pos), ty |-> tool.ty,
                   orientation |-> tool.orientation,
                   selected |-> FALSE, dragging |-> None]
           /\ tool' = tool
           /\ \A id \in DOMAIN components : components'[id] = components[id]
           /\ wires' = wires]_vars

\* rot_o of the specification: the pin offset turned with the component
ClaimedRot(o, p) ==
    CASE o = "North" -> Coords_new(p.x, p.y)
      [] o = "East"  -> Coords_new(0 - p.y, p.x)
      [] o = "South" -> Coords_new(0 - p.x, 0 - p.y)
      [] o = "West"  -> Coords_new(p.y, 0 - p.x)

\* The centre of the hit region of pin i: the pixel of the anchor (the centre
\* of the anchor cell) plus the rotated pin offset, in pixels
ClaimedPinCentre(data, i) ==
    Point_add(to_canvas_space(data.coords),
              to_widget_space(ClaimedRot(data.orientation,
                                         component_types[data.ty].pins[i + 1].pos)))

\* C12: for every catalog entry, orientation, anchor cell c and pin i, a
\* pointer-down at a pixel inside the hit region of pin i (the 6x6 square
\* centred on the rotated, anchor-relative position of the pin) begins a wire
\* draw FromComponent{id of the component, i, loc} with loc = c + rot_o(pin
\* offset): the component submits that begin-wire-draw, and its delivery makes
\* it the drawing state.
C12_PinClickBeginsDrawAtPinCell ==
    [][/\ \A id \in DOMAIN components :
          \A i \in 0..(Len(component_types[components[id].ty].pins) - 1) :
          \A delta \in PinDeltas :
            LET data == components[id]
                pos == Point_add(ClaimedPinCentre(data, i), delta)
                loc == Coords_add(data.coords,
                                  ClaimedRot(data.orientation,
                                             component_types[data.ty].pins[i + 1].pos))
            IN  (/\ PointerAt(pos)
                 /\ MouseDown(pos, "Left", FALSE))
                => BEGIN_WIRE_DRAW(FromComponent(id, i, loc)) \in Range(commands')
       /\ (/\ commands /= <<>>
           /\ Head(commands).selector = "BEGIN_WIRE_DRAW"
           /\ DeliverCommand)
          => drawing' = Some(Head(commands).payload)
      ]_vars

\* C13: in every reachable state in which a wire draw is active, a left-button
\* release clears the drawing state (drawing becomes none), whether or not a
\* segment is created and whatever keys and pointer moves came since the draw
\* began.
C13_ReleaseClearsDrawing ==
    [][\A pos \in Pixels :
        (/\ is_some(drawing)
         /\ PointerAt(pos)
         /\ MouseUp(pos, "Left"))
        => drawing' = None]_vars

C15_MoveWithoutAnchorIsNoOp ==
    [][\A pos \in Pixels :
        MouseMove(pos)
        => /\ \A k \in DOMAIN components :
                 components[k].dragging = None
                 => /\ components'[k].coords = components[k].coords
                    /\ components'[k].orientation = components[k].orientation
                    /\ components'[k].selected = components[k].selected
                    /\ components'[k].dragging = None
           /\ ~panicked']_vars

\* The pointer has been moved onto a component that holds no drag anchor: the
\* component is under the pointer, where the last move left it
C15_Witness ==
    \E k \in DOMAIN components :
        /\ components[k].dragging = None
        /\ component_widgets[k].hot
        /\ is_some(pointer)
        /\ Rect_contains(layout_rect(components[k]), unwrap(pointer))
        /\ mouse_pos = Some(from_canvas_space(unwrap(pointer)))
        /\ last_command = None
        /\ commands = <<>>

\* The pixel pos lies in the hit region of pin i of the component: the 6x6
\* square centred on the pin
InClaimedPinRegion(data, i, pos) ==
    LET c == ClaimedPinCentre(data, i)
    IN  /\ c.x - PinHalfSize <= pos.x /\ pos.x < c.x + PinHalfSize
        /\ c.y - PinHalfSize <= pos.y /\ pos.y < c.y + PinHalfSize

\* Some pin of some component is under the pixel pos
OverAPin(pos) ==
    \E k \in DOMAIN components :
        \E i \in 0..(Len(component_types[components[k].ty].pins) - 1) :
            InClaimedPinRegion(components[k], i, pos)

\* C16: in Hand tool, a left pointer-down inside the pin region of a component
\* only begins a wire draw: neither the canvas nor any item requests a
\* deselect-all for that event, and every component keeps its selected flag
\* and its drag anchor.
C16_PinClickRequestsNoDeselectAll ==
    [][\A pos \in Pixels : \A ctrl \in BOOLEAN :
        (/\ tool.kind = "Hand"
         /\ PointerAt(pos)
         /\ OverAPin(pos)
         /\ MouseDown(pos, "Left", ctrl))
        => /\ \A n \in 1..Len(commands') : commands'[n].selector /= "DESELECT_ALL"
           /\ \A k \in DOMAIN components :
                 /\ components'[k].selected = components[k].selected
                 /\ components'[k].dragging = components[k].dragging]_vars

\* C17: selection, drag and wire start happen only under Hand, stamping only
\* under Place: with tool Place a pointer-down changes no component's selected
\* flag or drag anchor and begins no wire draw; with tool Hand a pointer-down
\* inserts no component.
C17_ToolGatesPointerDown ==
    [][\A pos \in Pixels : \A button \in Buttons : \A ctrl \in BOOLEAN :
        (/\ PointerAt(pos)
         /\ MouseDown(pos, button, ctrl))
        => /\ tool.kind = "Place"
              => /\ \A k \in DOMAIN components :
                       /\ components'[k].selected = components[k].selected
                       /\ components'[k].dragging = components[k].dragging
                 /\ \A n \in 1..Len(commands') :
                       commands'[n].selector /= "BEGIN_WIRE_DRAW"
           /\ tool.kind = "Hand"
              => DOMAIN components' = DOMAIN components]_vars

\* C18: when a component receives a deselect-all whose originator is not
\* itself, afterwards its selected flag is false and its drag anchor is
\* cleared (so that the pointer moves that follow leave its coords alone).
C18_DeselectAllClearsDragAnchor ==
    [][(/\ commands /= <<>>
        /\ Head(commands).selector = "DESELECT_ALL"
        /\ DeliverCommand)
       => \A k \in DOMAIN components :
             Head(commands).payload /= WidgetIdOf(k)
             => /\ components'[k].selected = FALSE
                /\ components'[k].dragging = None]_vars

\* C19: after any pointer-up event no component holds a drag anchor (so that
\* the pointer moves up to the next pointer-down, which by C15 leave a
\* component without an anchor alone, change no component's coords).
C19_PointerUpClearsEveryDragAnchor ==
    [][\A pos \in DragPixels : \A button \in Buttons :
        (/\ PointerAt(pos)
         /\ MouseUp(pos, button))
        => \A k \in DOMAIN components : components'[k].dragging = None]_vars

\* C20: a pointer button event with a non-left button is meaningless to the
\* core: a non-left button down or up changes no component's selected flag,
\* drag anchor or coords, begins or ends no wire draw, places no component
\* and requests no broadcast.
C20_NonLeftButtonChangesNothing ==
    [][\A pos \in Pixels :
        (/\ PointerAt(pos)
         /\ \/ \E ctrl \in BOOLEAN : MouseDown(pos, "Right", ctrl)
            \/ MouseUp(pos, "Right"))
        => /\ DOMAIN components' = DOMAIN components
           /\ \A k \in DOMAIN components :
                 /\ components'[k].selected = components[k].selected
                 /\ components'[k].dragging = components[k].dragging
                 /\ components'[k].coords = components[k].coords
           /\ drawing' = drawing
           /\ wires' = wires
           /\ commands' = commands]_vars

\* A pointer-down at pos reaches component j (it holds the pointer grab or
\* pos is in the region it is laid out in) outside its pin regions: j takes
\* it in its body branch and marks it consumed
consumes(j, pos) ==
    LET data == components[j]
        rel == Point_sub(pos, Rect_origin(layout_rect(data)))
        npins == Len(component_types[data.ty].pins)
    IN  /\ \/ component_widgets[j].active
           \/ Rect_contains(layout_rect(data), pos)
        /\ \A i \in 0..(npins - 1) :
              ~Rect_contains(pin_bounding_rect(data, i), rel)

\* C21: within one event dispatch every child is offered the event, in
\* ascending id order, before the tool-level handling of the canvas runs, and
\* if a child marked the event consumed the tool-level handling is skipped
\* entirely: tool, mousePos, drawing and the wire collection are unchanged,
\* the canvas inserts no component and allocates no id, and no deselect-all
\* originating from the canvas is requested.  The children up to the consuming
\* one are left as their own handlers leave them, the later ones as they were.
\* Stated of the left pointer-down, the one with tool-level handling to skip,
\* that component k consumes: k ends up holding the grab and the anchor
\* captured at the pointer, and the step tells by the deselect-all naming k
\* whether ctrl was held.
C21_ConsumedEventSkipsToolHandling ==
    [][InputEnabled =>
       \A pos \in Pixels :
       (/\ PointerAt(pos)
        /\ pointer' = Some(pos)
        /\ last_command' = None) =>
       \A k \in DOMAIN components :
       (/\ component_widgets'[k].active
        /\ is_some(components'[k].dragging)
        /\ unwrap(components'[k].dragging).mouse_origin = pos
        /\ consumes(k, pos)
        /\ \A j \in DOMAIN components : j < k => ~consumes(j, pos)) =>
       LET ctrl == DESELECT_ALL(WidgetIdOf(k)) \notin Range(commands')
           ev == MouseDownEvent(pos, "Left", ctrl)
       IN  MouseDown(pos, "Left", ctrl)
           => /\ tool' = tool
              /\ mouse_pos' = mouse_pos
              /\ drawing' = drawing
              /\ wires' = wires
              /\ wire_widgets' = wire_widgets
              /\ DOMAIN components' = DOMAIN components
              /\ DOMAIN component_widgets' = DOMAIN component_widgets
              /\ next_item_id' = next_item_id
              /\ DESELECT_ALL(CanvasWidgetId) \notin Range(commands')
              /\ \A j \in DOMAIN components :
                    components'[j] =
                        IF j <= k THEN WidgetPod_event(j, ev).data
                        ELSE components[j]]_vars

\* Under the Place tool, with an id still to allocate, a component has just
\* consumed a pointer-down at the pointer position: it holds the anchor
\* captured there and nothing was placed by the click
C21_Witness ==
    /\ tool.kind = "Place"
    /\ next_item_id < MaxItems
    /\ last_command = None
    /\ is_some(pointer)
    /\ \E k \in DOMAIN components :
          /\ components[k].dragging =
                 Some([coords |-> components[k].coords,
                       mouse_origin |-> unwrap(pointer)])
          /\ component_widgets[k].active

\* The pointer is inside the bounding rect of no component
over_empty_canvas(pos) ==
    \A j \in DOMAIN components :
        ~Rect_contains(instance_bounding_rect(components[j]), pos)

\* C22 (as stated): in Hand tool, a left pointer-down over empty canvas
\* (inside no component's region) requests a deselect-all whose originator is
\* not any component; once it has been delivered every component has
\* selected == false, and an originator id matching no existing item does not
\* make the dispatch fail.
C22_EmptyCanvasClickDeselectsAll ==
    [][/\ \A pos \in GrabPixels : \A ctrl \in BOOLEAN :
            (/\ tool.kind = "Hand"
             /\ PointerAt(pos)
             /\ over_empty_canvas(pos)
             /\ MouseDown(pos, "Left", ctrl))
            => /\ commands' /= <<>>
               /\ commands'[Len(commands')].selector = "DESELECT_ALL"
               /\ \A k \in DOMAIN components :
                     commands'[Len(commands')].payload /= WidgetIdOf(k)
       /\ (/\ commands /= <<>>
           /\ Head(commands).selector = "DESELECT_ALL"
           /\ \A k \in DOMAIN components : Head(commands).payload /= WidgetIdOf(k)
           /\ DeliverCommand)
          => /\ \A k \in DOMAIN components : ~components'[k].selected
             /\ ~panicked'
      ]_vars

\* C23: for every catalog entry and every orientation, the region a placed
\* component is laid out and hit-tested in (origin of its bounding rect, size
\* returned by Component::layout) is exactly boundingRect(coords,
\* orientation): its width and height are swapped for East and West, also
\* for the 24x48 NOT gate.
C23_LayoutRegionIsBoundingRect ==
    \A k \in DOMAIN components :
        layout_rect(components[k]) = instance_bounding_rect(components[k])

\* C24: in the drag-lift App::update, a Drag message that arrives while no
\* component is being dragged (canvas_state.dragging is none) is a no-op: the
\* state is unchanged and the update does not fail.
C24_DragWithoutLiftIsNoOp ==
    [][\A c \in LegacyCells :
        (/\ canvas_state.dragging = None
         /\ Drag(c.x, c.y))
        => /\ canvas_state' = canvas_state
           /\ ~panicked']_vars

\* The components the drag-lift variant holds: those in the list and the
\* lifted one
held(cs) == Len(cs.components) + Len(cs.dragging)

\* C27: in the drag-lift App::update no component is ever lost: across any
\* sequence of AddComponent, HandToolMouseDown, Drag and HandToolMouseUp
\* messages the number of components in the list plus the one held in
\* dragging never decreases, and after a HandToolMouseUp every component that
\* was lifted is back in the list.
C27_NoComponentIsLost ==
    [][/\ held(canvas_state') >= held(canvas_state)
       /\ \A pos \in LegacyPixels :
             HandToolMouseUp(pos)
             => /\ canvas_state'.dragging = None
                /\ Len(canvas_state'.components) = held(canvas_state)]_vars

\* C25: in every reachable state in which a wire draw is active (drawing is
\* some) the last pointer cell mousePos is known (is some), and so the
\* mouse_pos unwraps on wire release and in the wire preview never fail, for
\* any sequence of key, pointer and broadcast events from the empty canvas.
C25_DrawingImpliesMousePosKnown ==
    /\ is_some(drawing) => is_some(mouse_pos)
    /\ ~panicked

\* C26: after every event the widget maps of the canvas and its state maps
\* have identical key sets, for the components and for the wires, and no id
\* is a key of both the component and the wire collection, so that the
\* lookups of the per-child state by id never fail.
C26_WidgetAndStateKeysAgree ==
    /\ DOMAIN component_widgets = DOMAIN components
    /\ wire_widgets = DOMAIN wires
    /\ DOMAIN components \cap DOMAIN wires = {}

\* A wire has just been registered by a release, next to a placed component
C26_Witness ==
    /\ wire_widgets /= {}
    /\ DOMAIN component_widgets /= {}
    /\ drawing = None
    /\ last_command = None
    /\ commands = <<>>

====
